---- MODULE Spec2Model ----
(***************************************************************************)
(* Model of balQt: the Qt binding scan of balQt/__init__.py and the        *)
(* StackedWidget overlay of balQt/stacked_widget.py.                       *)
(*                                                                         *)
(* Toolkit facts the code relies on (Qt documentation):                    *)
(*   - QRect.right() = left() + width() - 1, QRect.bottom() likewise;      *)
(*   - Qt.AlignLeading is the same flag value as Qt.AlignLeft, and         *)
(*     Qt.AlignTrailing the same as Qt.AlignRight;                         *)
(*   - a widget is never smaller than its explicit minimum size;           *)
(*   - Python's // on integers is floor division, as is \div.              *)
(***************************************************************************)
EXTENDS Integers, Sequences, FiniteSets, TLC

VARIABLES
    \* ---- StackedWidget ----
    alignment,            \* self.alignment
    margin,               \* self.margin
    layoutDirection,      \* self.bottom_widget.layoutDirection()
    geometry,             \* self.bottom_widget.geometry()
    bottom_sizeHint,      \* self.bottom_widget.sizeHint()
    top_sizeHint,         \* self.top_widget.sizeHint()
    top_geometry,         \* self.top_widget.geometry()
    bottom_minimumSize,   \* minimum size of the bottom widget
    top_minimumSize,      \* minimum size of the top widget
    top_sizePolicy,       \* size policy of the top widget
    events,               \* handlers run since the inputs last changed
    \* ---- binding scan ----
    sys_modules,          \* supported bindings present in sys.modules
    preloaded,            \* sys_modules when the scan started
    importable,           \* outcome of importing <binding>.QtCore
    QtBindings,           \* module-level QtBindings
    pc,                   \* position of the module-level code
    qt_binding,           \* loop index into supported_qt_bindings
    raised                \* exception that ended the module-level code

widgetVars == <<alignment, margin, layoutDirection, geometry, bottom_sizeHint,
                top_sizeHint, top_geometry, bottom_minimumSize,
                top_minimumSize, top_sizePolicy, events>>
scanVars == <<sys_modules, preloaded, importable, QtBindings, pc, qt_binding,
              raised>>
vars == <<alignment, margin, layoutDirection, geometry, bottom_sizeHint,
          top_sizeHint, top_geometry, bottom_minimumSize, top_minimumSize,
          top_sizePolicy, events, sys_modules, preloaded, importable,
          QtBindings, pc, qt_binding, raised>>

(***************************************************************************)
(* Bounds                                                                  *)
(***************************************************************************)
MaxEvents == 2

(***************************************************************************)
(* Qt values                                                               *)
(***************************************************************************)
AlignLeft == 1
AlignLeading == AlignLeft
AlignRight == 2
AlignTrailing == AlignRight
AlignHCenter == 4
AlignJustify == 8
AlignAbsolute == 16
AlignTop == 32
AlignBottom == 64
AlignVCenter == 128
AlignBaseline == 256
AlignCenter == AlignVCenter + AlignHCenter

LeftToRight == "LeftToRight"
RightToLeft == "RightToLeft"

SupportedAlignments ==
    {AlignRight, AlignLeft, AlignLeading, AlignTrailing, AlignTop, AlignBottom,
     AlignCenter, AlignHCenter, AlignVCenter, AlignJustify, AlignAbsolute,
     AlignBaseline}

\* combinations of flags that equal none of the twelve names
CombinedAlignments == {AlignRight + AlignTop, AlignLeft + AlignVCenter}

Alignments == SupportedAlignments \cup CombinedAlignments
Directions == {LeftToRight, RightToLeft}

Max(a, b) == IF a >= b THEN a ELSE b

\* QRect and QSize
Rect(x, y, w, h) == [x |-> x, y |-> y, w |-> w, h |-> h]
Size(w, h) == [w |-> w, h |-> h]
left(r) == r.x
top(r) == r.y
width(r) == r.w
height(r) == r.h
right(r) == r.x + r.w - 1
bottom(r) == r.y + r.h - 1

(***************************************************************************)
(* Input domains                                                           *)
(***************************************************************************)
Margins == {0, 3, 10}
Positions == {<<0, 0>>, <<7, 5>>}
Widths == {31, 200}
Heights == {11, 100}
TopSizeHints == {Size(40, 20), Size(13, 7)}
BottomSizeHints == {Size(60, 24), Size(9, 30)}
InitialTopGeometries == {Rect(0, 0, 100, 30), Rect(2, 3, 13, 7)}
LayoutRects ==
    {Rect(p[1], p[2], w, h) : p \in Positions, w \in Widths, h \in Heights}

DefaultMinimumSize == Size(0, 0)
DefaultSizePolicy == [horizontal |-> "Initial", vertical |-> "Initial"]

\* QWidget.setGeometry of the bottom widget: bounded below by its minimum
BoundedBelow(r, min) == Rect(r.x, r.y, Max(r.w, min.w), Max(r.h, min.h))

(***************************************************************************)
(* StackedWidget.__init__: minimum sizes and size policy                   *)
(***************************************************************************)
\* the flags are tested bit by bit instead of compared by value
IsCenterClass_ByFlag(a) ==
    \/ (a \div AlignHCenter) % 2 = 1
    \/ (a \div AlignVCenter) % 2 = 1

\* alignment in [Qt.AlignCenter, Qt.AlignVCenter, Qt.AlignHCenter]
IsCenterClass(a) ==
    a \in {AlignCenter, AlignVCenter, AlignHCenter}

BottomMinimumSize(a, m, bs, ts) ==
    IF a \in {AlignRight, AlignLeft, AlignLeading, AlignTrailing}
    THEN Size(bs.w + 2 * (ts.w + m), DefaultMinimumSize.h)
    ELSE IF a \in {AlignTop, AlignBottom}
    THEN Size(DefaultMinimumSize.w, bs.h + 2 * (ts.h + m))
    ELSE
      LET w1 == IF a \in {AlignAbsolute, AlignJustify}
                THEN Max(ts.w, bs.w) + m ELSE DefaultMinimumSize.w
          h1 == IF a \in {AlignBaseline, AlignJustify}
                THEN Max(ts.h, bs.h) + m ELSE DefaultMinimumSize.h
          margin_horizontal == IF a \in {AlignCenter, AlignHCenter} THEN m ELSE 0
          margin_vertical == IF a \in {AlignCenter, AlignVCenter} THEN m ELSE 0
      IN  IF IsCenterClass(a)
          THEN Size(Max(bs.w, ts.w + margin_horizontal),
                    Max(bs.h, ts.h + margin_vertical))
          ELSE Size(w1, h1)

TopMinimumSize(a, bs, ts) ==
    IF a \in {AlignRight, AlignLeft, AlignLeading, AlignTrailing, AlignTop,
              AlignBottom}
    THEN DefaultMinimumSize
    ELSE Size(IF a \in {AlignAbsolute, AlignJustify}
              THEN Max(ts.w, bs.w) ELSE DefaultMinimumSize.w,
              IF a \in {AlignBaseline, AlignJustify}
              THEN Max(ts.h, bs.h) ELSE DefaultMinimumSize.h)

TopSizePolicy(a) ==
    IF a \in {AlignRight, AlignLeft, AlignLeading, AlignTrailing, AlignTop,
              AlignBottom}
    THEN DefaultSizePolicy
    ELSE [horizontal |-> IF a \in {AlignAbsolute, AlignJustify}
                         THEN "MinimumExpanding"
                         ELSE DefaultSizePolicy.horizontal,
          vertical |-> IF a \in {AlignBaseline, AlignJustify}
                       THEN "MinimumExpanding"
                       ELSE DefaultSizePolicy.vertical]

(***************************************************************************)
(* StackedWidget.resizeEvent: the rectangle handed to setGeometry          *)
(***************************************************************************)
\* the layout direction is not consulted
PlacedRight_DirectionIgnored(a, d) ==
    a = AlignRight \/ a = AlignTrailing

PlacedRight(a, d) ==
    \/ a = AlignRight
    \/ (a = AlignLeading /\ d = RightToLeft)
    \/ (a = AlignTrailing /\ d = LeftToRight)

PlacedLeft(a, d) ==
    \/ a = AlignLeft
    \/ (a = AlignLeading /\ d = LeftToRight)
    \/ (a = AlignTrailing /\ d = RightToLeft)

RightRect(g, tw, th, m) ==
    Rect(right(g) - m - tw, top(g) + (height(g) - th) \div 2, tw, th)

LeftRect(g, tw, th, m) ==
    Rect(left(g) + m, top(g) + (height(g) - th) \div 2, tw, th)

TopRect(g, tw, th, m) ==
    Rect(left(g) + (width(g) - tw) \div 2, top(g) + m, tw, th)

BottomRect(g, tw, th, m) ==
    Rect(left(g) + (width(g) - tw) \div 2, bottom(g) - m - th, tw, th)

\* the margin goes to the wrong axis for HCenter and VCenter
CenterRect_MarginsSwapped(a, g, tw, th, m) ==
    Rect(left(g) + (width(g) - tw) \div 2 + (IF a = AlignHCenter THEN 0 ELSE m),
         top(g) + (height(g) - th) \div 2 + (IF a = AlignVCenter THEN 0 ELSE m),
         tw, th)

CenterRect(a, g, tw, th, m) ==
    Rect(left(g) + (width(g) - tw) \div 2 + (IF a = AlignVCenter THEN 0 ELSE m),
         top(g) + (height(g) - th) \div 2 + (IF a = AlignHCenter THEN 0 ELSE m),
         tw, th)

JustifyRect(g, m) ==
    Rect(left(g) + m \div 2, top(g) + m \div 2, width(g) - m, height(g) - m)

AbsoluteRect(g, th, m) ==
    Rect(left(g) + m \div 2, top(g) + (height(g) - th) \div 2,
         width(g) - m, th)

BaselineRect(g, tw, m) ==
    Rect(left(g) + (width(g) - tw) \div 2, top(g) + m \div 2,
         tw, height(g) - m)

\* old is the top widget's rectangle before the handler: it is kept when no
\* branch of the if/elif chain applies
resizeGeometry(a, d, g, ts, m, old) ==
    IF PlacedRight(a, d) THEN RightRect(g, ts.w, ts.h, m)
    ELSE IF PlacedLeft(a, d) THEN LeftRect(g, ts.w, ts.h, m)
    ELSE IF a = AlignTop THEN TopRect(g, ts.w, ts.h, m)
    ELSE IF a = AlignBottom THEN BottomRect(g, ts.w, ts.h, m)
    ELSE IF IsCenterClass(a) THEN CenterRect(a, g, ts.w, ts.h, m)
    ELSE IF a = AlignJustify THEN JustifyRect(g, m)
    ELSE IF a = AlignAbsolute THEN AbsoluteRect(g, ts.h, m)
    ELSE IF a = AlignBaseline THEN BaselineRect(g, ts.w, m)
    ELSE old

\* the handlers run since the inputs last changed, the latest MaxEvents kept
Logged(kind) ==
    IF Len(events) < MaxEvents THEN Append(events, kind)
    ELSE Append(Tail(events), kind)

\* the rectangle is computed from the top widget's own geometry
resizePass_FromTopGeometry ==
    top_geometry' = resizeGeometry(alignment, layoutDirection, top_geometry,
                                   top_sizeHint, margin, top_geometry)

\* body of resizeEvent up to the call of the base class
resizePass ==
    top_geometry' = resizeGeometry(alignment, layoutDirection, geometry,
                                   top_sizeHint, margin, top_geometry)

(***************************************************************************)
(* Overlay: state after construction                                       *)
(***************************************************************************)
ScanDone ==
    /\ sys_modules = {"PyQt5"}
    /\ preloaded = {}
    /\ importable = [b \in {"PyQt5"} |-> "ok"]
    /\ QtBindings = "PyQt5"
    /\ pc = "done"
    /\ qt_binding = 3
    /\ raised = "none"

Init ==
    /\ alignment \in Alignments
    /\ margin \in Margins
    /\ layoutDirection \in Directions
    /\ bottom_sizeHint \in BottomSizeHints
    /\ top_sizeHint \in TopSizeHints
    /\ top_geometry \in InitialTopGeometries
    /\ bottom_minimumSize =
         BottomMinimumSize(alignment, margin, bottom_sizeHint, top_sizeHint)
    /\ top_minimumSize = TopMinimumSize(alignment, bottom_sizeHint, top_sizeHint)
    /\ top_sizePolicy = TopSizePolicy(alignment)
    /\ \E r \in LayoutRects : geometry = BoundedBelow(r, bottom_minimumSize)
    /\ events = <<>>
    /\ ScanDone

(***************************************************************************)
(* Overlay: event handlers and the toolkit's changes of their inputs       *)
(***************************************************************************)
\* the show event is only handed to the base class
showEvent_NoResizePass ==
    /\ top_geometry' = top_geometry
    /\ events' = Logged("show")
    /\ UNCHANGED <<alignment, margin, layoutDirection, geometry,
                   bottom_sizeHint, top_sizeHint, bottom_minimumSize,
                   top_minimumSize, top_sizePolicy>>
    /\ UNCHANGED scanVars

showEvent ==
    /\ resizePass
    /\ events' = Logged("show")
    /\ UNCHANGED <<alignment, margin, layoutDirection, geometry,
                   bottom_sizeHint, top_sizeHint, bottom_minimumSize,
                   top_minimumSize, top_sizePolicy>>
    /\ UNCHANGED scanVars

\* the resize event is only handed to the base class
resizeEvent_BaseClassOnly ==
    /\ top_geometry' = top_geometry
    /\ events' = Logged("resize")
    /\ UNCHANGED <<alignment, margin, layoutDirection, geometry,
                   bottom_sizeHint, top_sizeHint, bottom_minimumSize,
                   top_minimumSize, top_sizePolicy>>
    /\ UNCHANGED scanVars

resizeEvent ==
    /\ resizePass
    /\ events' = Logged("resize")
    /\ UNCHANGED <<alignment, margin, layoutDirection, geometry,
                   bottom_sizeHint, top_sizeHint, bottom_minimumSize,
                   top_minimumSize, top_sizePolicy>>
    /\ UNCHANGED scanVars

\* the container's layout gives the bottom widget a new rectangle
LayoutBottom ==
    /\ \E r \in LayoutRects :
         /\ geometry' = BoundedBelow(r, bottom_minimumSize)
         /\ geometry' # geometry
    /\ events' = <<>>
    /\ UNCHANGED <<alignment, margin, layoutDirection, bottom_sizeHint,
                   top_sizeHint, top_geometry, bottom_minimumSize,
                   top_minimumSize, top_sizePolicy>>
    /\ UNCHANGED scanVars

\* the top widget's preferred size changes (text, font, style)
TopSizeHintChange ==
    /\ \E s \in TopSizeHints : s # top_sizeHint /\ top_sizeHint' = s
    /\ events' = <<>>
    /\ UNCHANGED <<alignment, margin, layoutDirection, geometry,
                   bottom_sizeHint, top_geometry, bottom_minimumSize,
                   top_minimumSize, top_sizePolicy>>
    /\ UNCHANGED scanVars

\* setLayoutDirection on the bottom widget or one of its ancestors
LayoutDirectionChange ==
    /\ \E d \in Directions : d # layoutDirection /\ layoutDirection' = d
    /\ events' = <<>>
    /\ UNCHANGED <<alignment, margin, geometry, bottom_sizeHint, top_sizeHint,
                   top_geometry, bottom_minimumSize, top_minimumSize,
                   top_sizePolicy>>
    /\ UNCHANGED scanVars

Next ==
    \/ showEvent
    \/ resizeEvent
    \/ LayoutBottom
    \/ TopSizeHintChange
    \/ LayoutDirectionChange

Spec == Init /\ [][Next]_vars

(***************************************************************************)
(* Binding scan: module-level code of balQt/__init__.py                    *)
(***************************************************************************)
\* the two Qt 6 bindings in the other order
supported_qt_bindings_PyQt6First ==
    <<"PyQt6", "PySide6", "PyQt5", "PySide2", "PyQt4", "PySide">>

supported_qt_bindings ==
    <<"PySide6", "PyQt6", "PyQt5", "PySide2", "PyQt4", "PySide">>

Bindings == {supported_qt_bindings[k] : k \in DOMAIN supported_qt_bindings}

\* importlib.import_module(f"{qt_binding}.QtCore"): returns, raises ImportError,
\* or raises another Exception
ImportOutcomes == {"ok", "ImportError", "Error"}

None == "None"

\* the first loop does not test sys.modules
InSysModules_NotTested(b) == b \in Bindings

\* qt_binding in sys.modules
InSysModules(b) == b \in sys_modules

\* the for statement takes the next element, or the loop ends
LoopEnd(k) == k = Len(supported_qt_bindings)

\* no StackedWidget exists while the module-level code runs
NoWidget ==
    /\ alignment = AlignRight
    /\ margin = 0
    /\ layoutDirection = LeftToRight
    /\ geometry = Rect(0, 0, 0, 0)
    /\ bottom_sizeHint = Size(0, 0)
    /\ top_sizeHint = Size(0, 0)
    /\ top_geometry = Rect(0, 0, 0, 0)
    /\ bottom_minimumSize = DefaultMinimumSize
    /\ top_minimumSize = DefaultMinimumSize
    /\ top_sizePolicy = DefaultSizePolicy
    /\ events = <<>>

InitScan ==
    /\ sys_modules \in SUBSET Bindings
    /\ preloaded = sys_modules
    /\ importable \in [Bindings -> ImportOutcomes]
    /\ QtBindings = None
    /\ pc = "scan_loaded"
    /\ qt_binding = 1
    /\ raised = "none"
    /\ NoWidget

\* first loop, lines 18-26: the binding is not in sys.modules
ScanLoadedAbsent ==
    /\ pc = "scan_loaded"
    /\ ~InSysModules(supported_qt_bindings[qt_binding])
    /\ IF LoopEnd(qt_binding)
       THEN pc' = "scan_import" /\ qt_binding' = 1
       ELSE pc' = pc /\ qt_binding' = qt_binding + 1
    /\ UNCHANGED <<sys_modules, preloaded, importable, QtBindings, raised>>
    /\ UNCHANGED widgetVars

\* first loop: the binding is in sys.modules, its QtCore raises (any Exception)
ScanLoadedBroken ==
    /\ pc = "scan_loaded"
    /\ InSysModules(supported_qt_bindings[qt_binding])
    /\ importable[supported_qt_bindings[qt_binding]] # "ok"
    /\ IF LoopEnd(qt_binding)
       THEN pc' = "scan_import" /\ qt_binding' = 1
       ELSE pc' = pc /\ qt_binding' = qt_binding + 1
    /\ UNCHANGED <<sys_modules, preloaded, importable, QtBindings, raised>>
    /\ UNCHANGED widgetVars

\* first loop: the binding is in sys.modules and its QtCore loads: break;
\* the second loop is skipped (line 29)
ScanLoadedFound ==
    /\ pc = "scan_loaded"
    /\ InSysModules(supported_qt_bindings[qt_binding])
    /\ importable[supported_qt_bindings[qt_binding]] = "ok"
    /\ QtBindings' = supported_qt_bindings[qt_binding]
    /\ pc' = "check"
    /\ UNCHANGED <<sys_modules, preloaded, importable, qt_binding, raised>>
    /\ UNCHANGED widgetVars

\* second loop, lines 30-36: the import succeeds: break
ScanImportOk ==
    /\ pc = "scan_import"
    /\ importable[supported_qt_bindings[qt_binding]] = "ok"
    /\ QtBindings' = supported_qt_bindings[qt_binding]
    /\ sys_modules' = sys_modules \cup {supported_qt_bindings[qt_binding]}
    /\ pc' = "check"
    /\ UNCHANGED <<preloaded, importable, qt_binding, raised>>
    /\ UNCHANGED widgetVars

\* second loop: ImportError: continue
ScanImportError ==
    /\ pc = "scan_import"
    /\ importable[supported_qt_bindings[qt_binding]] = "ImportError"
    /\ IF LoopEnd(qt_binding)
       THEN pc' = "check" /\ qt_binding' = qt_binding
       ELSE pc' = pc /\ qt_binding' = qt_binding + 1
    /\ UNCHANGED <<sys_modules, preloaded, importable, QtBindings, raised>>
    /\ UNCHANGED widgetVars

\* second loop: an exception that is no ImportError is not caught
ScanImportCrash ==
    /\ pc = "scan_import"
    /\ importable[supported_qt_bindings[qt_binding]] = "Error"
    /\ raised' = "Error"
    /\ pc' = "failed"
    /\ UNCHANGED <<sys_modules, preloaded, importable, QtBindings, qt_binding>>
    /\ UNCHANGED widgetVars

\* lines 39-40
RaiseIfNone ==
    /\ pc = "check"
    /\ IF QtBindings = None
       THEN raised' = "ImportError" /\ pc' = "failed"
       ELSE raised' = raised /\ pc' = "done"
    /\ UNCHANGED <<sys_modules, preloaded, importable, QtBindings, qt_binding>>
    /\ UNCHANGED widgetVars

NextScan ==
    \/ ScanLoadedAbsent
    \/ ScanLoadedBroken
    \/ ScanLoadedFound
    \/ ScanImportOk
    \/ ScanImportError
    \/ ScanImportCrash
    \/ RaiseIfNone

SpecScan == InitScan /\ [][NextScan]_vars

(***************************************************************************)
(* Properties of the overlay, checked under Spec                           *)
(***************************************************************************)
\* a show or resize handler has run and no input of it has changed since
LaidOut == events # <<>>

\* the rectangle a resize pass gives now if the alignment were a
Produces(a) ==
    resizeGeometry(a, layoutDirection, geometry, top_sizeHint, margin,
                   top_geometry)

Inside(r, g) ==
    /\ r.x >= g.x
    /\ r.y >= g.y
    /\ r.x + r.w <= g.x + g.w
    /\ r.y + r.h <= g.y + g.h

ExampleInputs ==
    /\ events = <<"resize">>
    /\ geometry = Rect(0, 0, 200, 100)
    /\ top_sizeHint = Size(40, 20)
    /\ margin = 10
    /\ layoutDirection = LeftToRight

\* C1: with bottom geometry (0,0,200,100), top preferred size (40,20) and
\* margin 10, a resize event after construction sets the top rectangle to
\* (150,40,40,20) for Right, (10,40,40,20) for Left, (80,10,40,20) for Top,
\* (80,70,40,20) for Bottom and (90,50,40,20) for Center.
C1_ExampleRectangles ==
    ExampleInputs =>
        /\ alignment = AlignRight => top_geometry = Rect(150, 40, 40, 20)
        /\ alignment = AlignLeft => top_geometry = Rect(10, 40, 40, 20)
        /\ alignment = AlignTop => top_geometry = Rect(80, 10, 40, 20)
        /\ alignment = AlignBottom => top_geometry = Rect(80, 70, 40, 20)
        /\ alignment = AlignCenter => top_geometry = Rect(90, 50, 40, 20)

\* C2 as stated: after a resize under Center, HCenter or VCenter the top
\* rectangle has the preferred size, x is the centred position plus the margin
\* for Center and VCenter and plus nothing for HCenter, y is the centred
\* position plus the margin for Center and HCenter and plus nothing for VCenter.
C2_AsStated ==
    (LaidOut /\ alignment \in {AlignCenter, AlignHCenter, AlignVCenter}) =>
        /\ top_geometry.w = top_sizeHint.w
        /\ top_geometry.h = top_sizeHint.h
        /\ top_geometry.x =
             geometry.x + (geometry.w - top_sizeHint.w) \div 2
               + (IF alignment \in {AlignCenter, AlignVCenter} THEN margin ELSE 0)
        /\ top_geometry.y =
             geometry.y + (geometry.h - top_sizeHint.h) \div 2
               + (IF alignment \in {AlignCenter, AlignHCenter} THEN margin ELSE 0)

\* C2 amended: after a resize under Center, HCenter or VCenter the top
\* rectangle has the preferred size, x is the centred position (floor
\* division) plus the margin for Center and HCenter and plus nothing for
\* VCenter, y is the centred position plus the margin for Center and VCenter
\* and plus nothing for HCenter.
C2_CenterMargins ==
    (LaidOut /\ alignment \in {AlignCenter, AlignHCenter, AlignVCenter}) =>
        /\ top_geometry.w = top_sizeHint.w
        /\ top_geometry.h = top_sizeHint.h
        /\ top_geometry.x =
             geometry.x + (geometry.w - top_sizeHint.w) \div 2
               + (IF alignment \in {AlignCenter, AlignHCenter} THEN margin ELSE 0)
        /\ top_geometry.y =
             geometry.y + (geometry.h - top_sizeHint.h) \div 2
               + (IF alignment \in {AlignCenter, AlignVCenter} THEN margin ELSE 0)

\* an HCenter overlay laid out with a margin, the width difference negative
\* and odd (the top widget's preferred size grew after construction)
C2_Witness ==
    /\ LaidOut
    /\ alignment = AlignHCenter
    /\ margin = 3
    /\ geometry.w - top_sizeHint.w = -9
    /\ top_geometry.x = geometry.x - 5 + 3
    /\ top_geometry.y = geometry.y + (geometry.h - top_sizeHint.h) \div 2

C4_Idempotent ==
    [][(resizeEvent /\ LaidOut /\ events[Len(events)] = "resize")
         => top_geometry' = top_geometry]_vars

\* two resize events in a row on a supported alignment
C4_Witness ==
    /\ Len(events) >= 2
    /\ events[Len(events)] = "resize"
    /\ events[Len(events) - 1] = "resize"
    /\ alignment \in SupportedAlignments
    /\ top_geometry \notin InitialTopGeometries

\* C5: for every supported alignment, whenever the bottom geometry is at least
\* the minimum size construction set, the top rectangle a resize event sets
\* lies inside the bottom geometry on both axes.
C5_NeverClips ==
    (/\ LaidOut
     /\ alignment \in SupportedAlignments
     /\ geometry.w >= bottom_minimumSize.w
     /\ geometry.h >= bottom_minimumSize.h)
        => Inside(top_geometry, geometry)

\* C8: right after every show event and every resize event the top rectangle
\* is the per-resize rectangle of the current bottom geometry, preferred size,
\* margin and alignment, whatever the rectangle and the events before.
C8_EventLaysOut ==
    [][((showEvent \/ resizeEvent) /\ alignment \in SupportedAlignments)
         => top_geometry' =
              resizeGeometry(alignment', layoutDirection', geometry',
                             top_sizeHint', margin', Rect(0, 0, 0, 0))]_vars

\* a show event was the only handler run since the inputs changed, and it
\* moved the top widget
C8_Witness ==
    /\ events = <<"show">>
    /\ alignment \in SupportedAlignments
    /\ top_geometry \notin InitialTopGeometries

\* C9 as stated: in every reachable state the top rectangle is the per-resize
\* rectangle of the current values.
C9_AsStated ==
    top_geometry = Produces(alignment)

\* C9 amended: in every reachable state in which a show or resize event has
\* been delivered and the bottom geometry, the layout direction and the top
\* preferred size have not changed since, the top rectangle is the per-resize
\* rectangle of the current values.
C9_FunctionOfInputs ==
    LaidOut => top_geometry = Produces(alignment)

\* laid out after the preferred size of the top widget changed
C9_Witness ==
    /\ LaidOut
    /\ alignment \in SupportedAlignments
    /\ top_sizeHint = Size(13, 7)
    /\ top_geometry.w = 13
    /\ top_geometry \notin InitialTopGeometries

\* C10: with an alignment that is none of the twelve names, construction sets
\* no minimum size on either widget and every show and resize event leaves
\* the top rectangle unchanged.
C10_UnsupportedAlignment ==
    /\ [](alignment \notin SupportedAlignments =>
            /\ bottom_minimumSize = DefaultMinimumSize
            /\ top_minimumSize = DefaultMinimumSize)
    /\ [][((showEvent \/ resizeEvent) /\ alignment \notin SupportedAlignments)
            => top_geometry' = top_geometry]_vars

\* a show and a resize event ran on an overlay whose alignment is a
\* combination of two flags
C10_Witness ==
    /\ alignment \in CombinedAlignments
    /\ events = <<"show", "resize">>
    /\ top_geometry \in InitialTopGeometries

(***************************************************************************)
(* Properties of the binding scan, checked under SpecScan                  *)
(***************************************************************************)
PriorityOrder == <<"PySide6", "PyQt6", "PyQt5", "PySide2", "PyQt4", "PySide">>

Rank(b) == CHOOSE k \in DOMAIN PriorityOrder : PriorityOrder[k] = b

First(S) == CHOOSE b \in S : \A c \in S : Rank(b) <= Rank(c)

Finished == pc \in {"done", "failed"}

\* the bindings loaded before the scan whose QtCore loads
Active == {b \in preloaded : importable[b] = "ok"}

Loadable == {b \in Bindings : importable[b] = "ok"}

\* C6 as stated: every supported binding already loaded (its core submodule
\* loading) when resolution runs is the selected one.
C6_AsStated ==
    Finished => \A b \in Active : QtBindings = b

\* C6 amended: when some supported binding is already loaded and its core
\* submodule loads, the selected binding is the first such binding in the
\* supported order, even when a binding of higher priority is installed.
C6_AlreadyActive ==
    (Finished /\ Active # {}) =>
        /\ pc = "done"
        /\ raised = "none"
        /\ QtBindings = First(Active)

\* the loaded binding was selected although one of higher priority loads
C6_Witness ==
    /\ pc = "done"
    /\ QtBindings \in Active
    /\ \E c \in Loadable \ preloaded : Rank(c) < Rank(QtBindings)

\* C7 as stated: the selected binding is the first entry of the fixed order
\* whose core submodule loads, and resolution fails with an import error,
\* nothing selected, exactly when no candidate loads.
C7_AsStated ==
    Finished =>
        IF Loadable # {}
        THEN pc = "done" /\ QtBindings = First(Loadable)
        ELSE pc = "failed" /\ raised = "ImportError" /\ QtBindings = None

\* C7 amended: the outcome is a function of the loaded and the importable
\* bindings. With a loaded binding whose core loads it is the first such one.
\* Otherwise candidates failing with ImportError are skipped; the first
\* candidate that does not is selected if it loads, and if it raises another
\* exception resolution ends with that exception; when every candidate raises
\* ImportError resolution fails with an import error. Nothing is selected when
\* resolution fails.
C7_Deterministic ==
    Finished =>
        LET tried == {b \in Bindings : importable[b] # "ImportError"}
        IN  IF Active # {}
            THEN pc = "done" /\ QtBindings = First(Active)
            ELSE IF tried = {}
            THEN pc = "failed" /\ raised = "ImportError" /\ QtBindings = None
            ELSE IF importable[First(tried)] = "ok"
            THEN pc = "done" /\ raised = "none" /\ QtBindings = First(tried)
            ELSE pc = "failed" /\ raised = "Error" /\ QtBindings = None

\* nothing was loaded, PySide6 and PyQt6 raised ImportError and were skipped,
\* PyQt5 was selected
C7_Witness ==
    /\ pc = "done"
    /\ preloaded = {}
    /\ importable["PySide6"] = "ImportError"
    /\ importable["PyQt6"] = "ImportError"
    /\ QtBindings = "PyQt5"

====
